---- MODULE Spec2Model ----
(***************************************************************************)
(* Datadog tracing configuration of the router                             *)
(* (apollo-router/src/plugins/telemetry/tracing/datadog.rs).               *)
(*                                                                         *)
(* The configuration is deserialized, apply() assembles the exporter       *)
(* pipeline and registers a batch span processor, and the two mapping      *)
(* callbacks given to the pipeline are then invoked once per exported      *)
(* span.  Strings that are taken apart (endpoint strings, URLs) are        *)
(* sequences of tokens; "/" is one token.                                  *)
(***************************************************************************)
EXTENDS Integers, Sequences, FiniteSets, TLC

VARIABLES pc, source, config, builder, pipeline, result, span, name, resource

vars == <<pc, source, config, builder, pipeline, result, span, name, resource>>

(***************************************************************************)
(* Bounds                                                                  *)
(***************************************************************************)
\* largest number of "/" tokens at the end of a configured endpoint
MaxTrailing == 2

(***************************************************************************)
(* Option                                                                  *)
(***************************************************************************)
None == [some |-> FALSE, val |-> <<>>]
Some(v) == [some |-> TRUE, val |-> v]

(***************************************************************************)
(* Endpoint strings and URLs                                               *)
(***************************************************************************)
Slash == "/"
Sep == "://"

RECURSIVE Slashes(_)
Slashes(n) == IF n = 0 THEN <<>> ELSE <<Slash>> \o Slashes(n - 1)

Schemes == {"http", "https"}
HostPorts == {<<"collector", ":", "1234">>, <<"localhost", ":", "8126">>}

\* the endpoint strings a configuration file may carry
EndpointStrings ==
    {<<"default">>}
    \cup {h \o Slashes(n) : h \in HostPorts, n \in 0..MaxTrailing}
    \cup {<<s, Sep>> \o h \o Slashes(n) :
              s \in Schemes, h \in HostPorts, n \in 0..MaxTrailing}
    \cup {<<s, Sep>> \o Slashes(n) : s \in Schemes, n \in 0..MaxTrailing}
    \cup {Slashes(n) : n \in 1..MaxTrailing}

HasScheme(s) == Len(s) >= 2 /\ s[2] = Sep

\* number of leading tokens of s that are not "/"
RECURSIVE AuthorityLen(_)
AuthorityLen(s) ==
    IF s = <<>> \/ Head(s) = Slash THEN 0 ELSE 1 + AuthorityLen(Tail(s))

NoUrl == [scheme |-> "", host |-> <<>>, path |-> <<>>]

\* Url::parse: scheme, authority and path; an absent path becomes "/"
UrlParse(s) ==
    IF ~HasScheme(s) THEN [ok |-> FALSE, url |-> NoUrl]
    ELSE LET rest == SubSeq(s, 3, Len(s))
             n    == AuthorityLen(rest)
             path == SubSeq(rest, n + 1, Len(rest))
         IN  IF n = 0 THEN [ok |-> FALSE, url |-> NoUrl]
             ELSE [ok  |-> TRUE,
                   url |-> [scheme |-> s[1],
                            host   |-> SubSeq(rest, 1, n),
                            path   |-> IF path = <<>> THEN <<Slash>> ELSE path]]

\* Url::to_string
UrlToString(u) == <<u.scheme, Sep>> \o u.host \o u.path

\* str::strip_suffix('/') in place of the trim: at most one "/" is removed
trim_one(s) ==
    IF s # <<>> /\ s[Len(s)] = Slash THEN SubSeq(s, 1, Len(s) - 1) ELSE s

\* str::trim_end_matches('/')
RECURSIVE trim_end_matches(_)
trim_end_matches(s) ==
    IF s # <<>> /\ s[Len(s)] = Slash
    THEN trim_end_matches(SubSeq(s, 1, Len(s) - 1))
    ELSE s

(***************************************************************************)
(* AgentEndpoint and Config                                                *)
(***************************************************************************)
AgentDefault == [tag |-> "Default", url |-> NoUrl]
AgentUrl(u) == [tag |-> "Url", url |-> u]
NoEndpoint == [tag |-> "None", url |-> NoUrl]

\* deserialization that keeps the string as written, without the http:// default
deser_no_default_scheme(s) ==
    IF s = <<"default">> THEN [ok |-> TRUE, endpoint |-> AgentDefault]
    ELSE LET p == UrlParse(IF HasScheme(s) THEN s ELSE <<"https", Sep>> \o s)
         IN  IF p.ok THEN [ok |-> TRUE, endpoint |-> AgentUrl(p.url)]
             ELSE [ok |-> FALSE, endpoint |-> NoEndpoint]

\* deser_endpoint: "default" is the agent default; any other string is a URL,
\* http:// being put in front of a string that has no scheme
deser_endpoint(s) ==
    IF s = <<"default">> THEN [ok |-> TRUE, endpoint |-> AgentDefault]
    ELSE LET p == UrlParse(IF HasScheme(s) THEN s ELSE <<"http", Sep>> \o s)
         IN  IF p.ok THEN [ok |-> TRUE, endpoint |-> AgentUrl(p.url)]
             ELSE [ok |-> FALSE, endpoint |-> NoEndpoint]

(***************************************************************************)
(* Spans                                                                   *)
(***************************************************************************)
StringValue(s) == [tag |-> "String", s |-> s, i |-> 0]
I64Value(i) == [tag |-> "I64", s |-> "", i |-> i]

Keys == {"http.method", "http.route", "graphql.operation.name",
         "apollo.subgraph.name"}

\* the values an attribute may carry: a string of its own and a number
StringOf(key) ==
    CASE key = "http.method" -> "GET"
      [] key = "http.route" -> "/graphql"
      [] key = "graphql.operation.name" -> "MyQuery"
      [] OTHER -> "products"
ValuesOf(key) == {StringValue(StringOf(key)), I64Value(42)}
Values == UNION {ValuesOf(k) : k \in Keys}

SpanNames == {"request", "router", "supergraph", "query_planning",
              "execution", "fetch", "subgraph", "subgraph_request",
              "unrelated_kind"}

AttributeSets ==
    UNION {{a \in [D -> Values] : \A k \in D : a[k] \in ValuesOf(k)} :
              D \in SUBSET Keys}
Spans == [name : SpanNames, attributes : AttributeSets]

\* attributes.get(key)
get(attributes, key) ==
    IF key \in DOMAIN attributes THEN Some(attributes[key]) ELSE None

(***************************************************************************)
(* The mapping callbacks.  A call either returns a string or panics; line  *)
(* is the source line of the return statement (or of the unwrap) reached.  *)
(***************************************************************************)
Return(s, l) == [panic |-> FALSE, ret |-> s, line |-> l]
Panic(l) == [panic |-> TRUE, ret |-> "", line |-> l]
NotCalled == [panic |-> FALSE, ret |-> "", line |-> 0]

\* name mapping that names the execution span after its own name
name_mapping_slip(s) ==
    IF s.name = "request" THEN Return("supergraph.request", 47)
    ELSE IF s.name = "router" THEN Return("supergraph.router", 49)
    ELSE IF s.name = "request" THEN Return("supergraph.parse_query", 51)
    ELSE IF s.name = "supergraph" THEN Return("supergraph.operation", 53)
    ELSE IF s.name = "query_planning" THEN Return("supergraph.query_planning", 55)
    ELSE IF s.name = "execution" THEN Return("supergraph.execution", 57)
    ELSE IF s.name = "fetch" THEN Return("supergraph.fetch", 59)
    ELSE IF s.name = "subgraph" THEN Return("subgraph.operation", 61)
    ELSE IF s.name = "subgraph_request" THEN Return("subgraph.service", 63)
    ELSE Return("apollo_router", 65)

\* the closure given to with_name_mapping
name_mapping(s) ==
    IF s.name = "request" THEN Return("supergraph.request", 47)
    ELSE IF s.name = "router" THEN Return("supergraph.router", 49)
    ELSE IF s.name = "request" THEN Return("supergraph.parse_query", 51)
    ELSE IF s.name = "supergraph" THEN Return("supergraph.operation", 53)
    ELSE IF s.name = "query_planning" THEN Return("supergraph.query_planning", 55)
    ELSE IF s.name = "execution" THEN Return("supergraph.execute", 57)
    ELSE IF s.name = "fetch" THEN Return("supergraph.fetch", 59)
    ELSE IF s.name = "subgraph" THEN Return("subgraph.operation", 61)
    ELSE IF s.name = "subgraph_request" THEN Return("subgraph.service", 63)
    ELSE Return("apollo_router", 65)

\* span.attributes.get(key).unwrap() followed by the match on the value:
\* a missing attribute panics at line u, a string value is returned and any
\* other value gives the span name, both at line m
unwrap_and_match(s, key, u, m) ==
    LET value == get(s.attributes, key)
    IN  IF ~value.some THEN Panic(u)
        ELSE IF value.val.tag = "String" THEN Return(value.val.s, m)
        ELSE Return(s.name, m)

\* resource mapping whose first test misses "request"
resource_mapping_shadowed(s) ==
    IF s.name = "requests" THEN unwrap_and_match(s, "http.method", 72, 73)
    ELSE IF s.name = "router" THEN Return(s.name, 78)
    ELSE IF s.name = "request" THEN Return(s.name, 80)
    ELSE IF s.name = "supergraph" THEN
        unwrap_and_match(s, "graphql.operation.name", 84, 85)
    ELSE IF s.name = "query_planning" THEN
        unwrap_and_match(s, "graphql.operation.name", 92, 93)
    ELSE IF s.name = "execution" THEN Return(s.name, 98)
    ELSE IF s.name = "fetch" THEN Return(s.name, 100)
    ELSE IF s.name = "subgraph" THEN
        unwrap_and_match(s, "graphql.operation.name", 104, 105)
    ELSE IF s.name = "subgraph_request" THEN
        unwrap_and_match(s, "apollo.subgraph.name", 112, 113)
    ELSE Return(s.name, 118)

\* resource mapping in which the router branch reads the route attribute
resource_mapping_slip(s) ==
    IF s.name = "request" THEN unwrap_and_match(s, "http.method", 72, 73)
    ELSE IF s.name = "router" THEN
        LET value == get(s.attributes, "http.route")
        IN  IF value.some /\ value.val.tag = "String"
            THEN Return(value.val.s, 78) ELSE Return(s.name, 78)
    ELSE IF s.name = "request" THEN Return(s.name, 80)
    ELSE IF s.name = "supergraph" THEN
        unwrap_and_match(s, "graphql.operation.name", 84, 85)
    ELSE IF s.name = "query_planning" THEN
        unwrap_and_match(s, "graphql.operation.name", 92, 93)
    ELSE IF s.name = "execution" THEN Return(s.name, 98)
    ELSE IF s.name = "fetch" THEN Return(s.name, 100)
    ELSE IF s.name = "subgraph" THEN
        unwrap_and_match(s, "graphql.operation.name", 104, 105)
    ELSE IF s.name = "subgraph_request" THEN
        unwrap_and_match(s, "apollo.subgraph.name", 112, 113)
    ELSE Return(s.name, 118)

\* the closure given to with_resource_mapping
resource_mapping(s) ==
    IF s.name = "request" THEN unwrap_and_match(s, "http.method", 72, 73)
    ELSE IF s.name = "router" THEN Return(s.name, 78)
    ELSE IF s.name = "request" THEN Return(s.name, 80)
    ELSE IF s.name = "supergraph" THEN
        unwrap_and_match(s, "graphql.operation.name", 84, 85)
    ELSE IF s.name = "query_planning" THEN
        unwrap_and_match(s, "graphql.operation.name", 92, 93)
    ELSE IF s.name = "execution" THEN Return(s.name, 98)
    ELSE IF s.name = "fetch" THEN Return(s.name, 100)
    ELSE IF s.name = "subgraph" THEN
        unwrap_and_match(s, "graphql.operation.name", 104, 105)
    ELSE IF s.name = "subgraph_request" THEN
        unwrap_and_match(s, "apollo.subgraph.name", 112, 113)
    ELSE Return(s.name, 118)

(***************************************************************************)
(* apply                                                                   *)
(***************************************************************************)
ServiceNames == {"router", "my-service"}
NoPipeline == [agent_endpoint |-> None, service_name |-> ""]
DatadogProcessor == "datadog"

\* let url = match &self.endpoint { Default(_) => None, Url(s) => Some(s) }
url_of(endpoint) ==
    IF endpoint.tag = "Default" THEN None ELSE Some(endpoint.url)

\* GenericWith::with: the closure is applied to the builder when the option
\* holds a value, and the builder is returned as it is otherwise
with(b, option, address) ==
    IF option.some THEN [b EXCEPT !.agent_endpoint = Some(address)] ELSE b

\* new_pipeline().with(&url, ..with_agent_endpoint..).with_service_name(..)
exporter_pipeline(endpoint, service_name) ==
    LET url == url_of(endpoint)
        b   == with(NoPipeline, url,
                    trim_end_matches(UrlToString(url.val)))
    IN  [b EXCEPT !.service_name = service_name]

(***************************************************************************)
(* State machine                                                           *)
(***************************************************************************)
Init ==
    /\ pc = "load"
    /\ source = <<>>
    /\ config = [endpoint |-> NoEndpoint]
    /\ builder \in {<<>>, <<"otlp">>}
    /\ pipeline = NoPipeline
    /\ result = "none"
    /\ span \in Spans
    /\ name = NotCalled
    /\ resource = NotCalled

\* serde_yaml::from_str::<Config>("endpoint: <s>")
Deserialize ==
    /\ pc = "load"
    /\ \E s \in EndpointStrings :
          LET d == deser_endpoint(s)
          IN  /\ source' = s
              /\ config' = [endpoint |-> d.endpoint]
              /\ pc' = IF d.ok THEN "configured" ELSE "config_error"
    /\ UNCHANGED <<builder, pipeline, result, span, name, resource>>

\* apply that registers the span processor before the exporter is built
ApplyEager ==
    /\ pc = "configured"
    /\ \E service_name \in ServiceNames, built \in BOOLEAN :
          /\ pipeline' = exporter_pipeline(config.endpoint, service_name)
          /\ builder' = Append(builder, DatadogProcessor)
          /\ IF built
             THEN /\ result' = "Ok"
                  /\ pc' = "running"
             ELSE /\ result' = "Err"
                  /\ pc' = "failed"
    /\ UNCHANGED <<source, config, span, name, resource>>

\* Config::apply; build_exporter of the exporter library succeeds or fails
Apply ==
    /\ pc = "configured"
    /\ \E service_name \in ServiceNames, built \in BOOLEAN :
          /\ pipeline' = exporter_pipeline(config.endpoint, service_name)
          /\ IF built
             THEN /\ builder' = Append(builder, DatadogProcessor)
                  /\ result' = "Ok"
                  /\ pc' = "running"
             ELSE /\ builder' = builder
                  /\ result' = "Err"
                  /\ pc' = "failed"
    /\ UNCHANGED <<source, config, span, name, resource>>

\* the exporter calls both callbacks on the finished span; a panic of a
\* callback ends the export task
Export ==
    /\ pc = "running"
    /\ name' = name_mapping(span)
    /\ resource' = resource_mapping(span)
    /\ pc' = IF resource_mapping(span).panic THEN "panicked" ELSE "running"
    /\ UNCHANGED <<source, config, builder, pipeline, result, span>>

Next == Deserialize \/ Apply \/ Export

Spec == Init /\ [][Next]_vars

TypeOK ==
    /\ pc \in {"load", "config_error", "configured", "failed", "running",
               "panicked"}
    /\ result \in {"none", "Ok", "Err"}
    /\ span \in Spans
    /\ name.panic = FALSE

(***************************************************************************)
(* Properties                                                              *)
(***************************************************************************)
\* both callbacks have been invoked on the span
Exported == name.line # 0

\* apply has run
Applied == result # "none"

\* the span-resource attribute-key table of the specification
ResourceKey ==
    [request |-> "http.route", supergraph |-> "graphql.operation.name",
     query_planning |-> "graphql.operation.name",
     subgraph |-> "graphql.operation.name",
     subgraph_request |-> "graphql.operation.name"]

Range(f) == {f[i] : i \in DOMAIN f}

\* C1 as stated: the name-mapping callback returns the tabulated backend name
\* for each of the eight span names, subgraph_request giving subgraph.request,
\* and apollo_router for every other name.
C1_NameTable ==
    Exported =>
        name.ret =
            CASE span.name = "request" -> "supergraph.request"
              [] span.name = "router" -> "supergraph.router"
              [] span.name = "supergraph" -> "supergraph.operation"
              [] span.name = "query_planning" -> "supergraph.query_planning"
              [] span.name = "execution" -> "supergraph.execute"
              [] span.name = "fetch" -> "supergraph.fetch"
              [] span.name = "subgraph" -> "subgraph.operation"
              [] span.name = "subgraph_request" -> "subgraph.request"
              [] OTHER -> "apollo_router"

\* C1 amended: the name-mapping callback returns the tabulated backend name
\* for each of the eight span names, subgraph_request giving subgraph.service,
\* and apollo_router for every other name.
C1_NameTableAmended ==
    Exported =>
        name.ret =
            CASE span.name = "request" -> "supergraph.request"
              [] span.name = "router" -> "supergraph.router"
              [] span.name = "supergraph" -> "supergraph.operation"
              [] span.name = "query_planning" -> "supergraph.query_planning"
              [] span.name = "execution" -> "supergraph.execute"
              [] span.name = "fetch" -> "supergraph.fetch"
              [] span.name = "subgraph" -> "subgraph.operation"
              [] span.name = "subgraph_request" -> "subgraph.service"
              [] OTHER -> "apollo_router"

C1_Witness ==
    /\ Exported
    /\ span.name = "subgraph_request"
    /\ name.ret = "subgraph.service"

\* C2: the resource-mapping callback never fails, whatever the span's name
\* and attributes, the empty attribute set included.
C2_NeverFails == ~resource.panic /\ pc # "panicked"

\* C3: for a span whose name is in the attribute-key table and that carries
\* the tabulated attribute with a string value, the resource-mapping callback
\* returns that string.
C3_TabulatedString ==
    (/\ Exported
     /\ span.name \in DOMAIN ResourceKey
     /\ ResourceKey[span.name] \in DOMAIN span.attributes
     /\ span.attributes[ResourceKey[span.name]].tag = "String")
    => /\ ~resource.panic
       /\ resource.ret = span.attributes[ResourceKey[span.name]].s

\* C4: for a span whose name is in the attribute-key table and that does not
\* carry the tabulated attribute, the resource-mapping callback returns the
\* span's own name.
C4_MissingAttribute ==
    (/\ Exported
     /\ span.name \in DOMAIN ResourceKey
     /\ ResourceKey[span.name] \notin DOMAIN span.attributes)
    => /\ ~resource.panic
       /\ resource.ret = span.name

\* C5: for a span whose name is in the attribute-key table and whose
\* tabulated attribute is present with a non-string value, the
\* resource-mapping callback returns the span's own name.
C5_NonStringAttribute ==
    (/\ Exported
     /\ span.name \in DOMAIN ResourceKey
     /\ ResourceKey[span.name] \in DOMAIN span.attributes
     /\ span.attributes[ResourceKey[span.name]].tag # "String")
    => /\ ~resource.panic
       /\ resource.ret = span.name

\* C6: for a span whose name is not in the attribute-key table, the
\* resource-mapping callback returns the span's own name, whatever attributes
\* the span carries.
C6_NoTableEntry ==
    (Exported /\ span.name \notin DOMAIN ResourceKey)
    => /\ ~resource.panic
       /\ resource.ret = span.name

C6_Witness ==
    /\ Exported
    /\ span.name = "router"
    /\ DOMAIN span.attributes = Keys
    /\ \A k \in Keys : span.attributes[k].tag = "String"
    /\ resource.ret = "router"

\* C7: "default" resolves to the Default variant; any other string without a
\* scheme resolves as "http://" followed by the string does, collector:1234
\* giving the URL http://collector:1234; a string with a scheme keeps it,
\* https://collector:1234 giving the URL https://collector:1234.
C7_EndpointResolution ==
    pc # "load" =>
        /\ source = <<"default">> => config.endpoint = AgentDefault
        /\ (source # <<"default">> /\ ~HasScheme(source)) =>
              LET d == deser_endpoint(<<"http", Sep>> \o source)
              IN  /\ config.endpoint = d.endpoint
                  /\ (pc = "config_error") = ~d.ok
        /\ source = <<"collector", ":", "1234">> =>
              config.endpoint =
                  AgentUrl(UrlParse(<<"http", Sep, "collector", ":", "1234">>).url)
        /\ (HasScheme(source) /\ pc # "config_error") =>
              /\ config.endpoint.tag = "Url"
              /\ config.endpoint.url.scheme = source[1]
        /\ source = <<"https", Sep, "collector", ":", "1234">> =>
              config.endpoint =
                  AgentUrl([scheme |-> "https",
                            host |-> <<"collector", ":", "1234">>,
                            path |-> <<Slash>>])

C7_Witness ==
    /\ pc = "configured"
    /\ source = <<"collector", ":", "1234">>
    /\ config.endpoint.tag = "Url"
    /\ config.endpoint.url.scheme = "http"

\* C8: apply gives the exporter builder an agent address exactly when the
\* endpoint is the Url variant, and the address is the URL's text without
\* any of its trailing "/".
C8_AgentAddress ==
    Applied =>
        /\ pipeline.agent_endpoint.some <=> config.endpoint.tag = "Url"
        /\ pipeline.agent_endpoint.some =>
              LET text    == UrlToString(config.endpoint.url)
                  address == pipeline.agent_endpoint.val
              IN  /\ address = <<>> \/ address[Len(address)] # Slash
                  /\ \E k \in 0..Len(text) : text = address \o Slashes(k)

C8_Witness ==
    /\ Applied
    /\ config.endpoint.tag = "Url"
    /\ config.endpoint.url.path = <<Slash, Slash>>
    /\ pipeline.agent_endpoint =
           Some(<<config.endpoint.url.scheme, Sep>> \o config.endpoint.url.host)

\* C9: when build_exporter fails, apply returns the error and no batch span
\* processor is registered on the tracing builder; the processor is on the
\* builder only once the exporter has been built.
C9_FailedApplyRegistersNothing ==
    /\ result = "Err" => (pc = "failed" /\ DatadogProcessor \notin Range(builder))
    /\ DatadogProcessor \in Range(builder) => result = "Ok"

C9_Witness ==
    /\ result = "Err"
    /\ builder = <<"otlp">>
    /\ pipeline # NoPipeline

\* C10: the second test of span.name == "request" is never the branch taken:
\* the name-mapping callback never returns supergraph.parse_query, and for a
\* span named request the resource-mapping callback goes through the
\* attribute lookup of the first branch.
C10_SecondRequestBranchUnreachable ==
    /\ name.ret # "supergraph.parse_query"
    /\ name.line # 51
    /\ resource.line # 80
    /\ (Exported /\ span.name = "request") =>
          /\ name.line = 47
          /\ resource.line \in {72, 73}

C10_Witness ==
    /\ Exported
    /\ span.name = "request"
    /\ resource.line = 73
    /\ name.ret = "supergraph.request"

====
